---- MODULE Spec2Model ----
(***************************************************************************)
(* Model of src/bot.py (telegram-schedule-bot): the fetch-then-cache       *)
(* fallback of get_schedule_data, the week-parity resolution of            *)
(* get_week_type, the day projection of format_day_schedule and the        *)
(* handlers that combine them.                                             *)
(*                                                                         *)
(* Dates are proleptic Gregorian ordinals (datetime.toordinal()).          *)
(* A schedule document (the JSON value returned by the API or read from    *)
(* the cache file) is a record                                             *)
(*   [isNone, has_current_week, current_week, has_lines, lines,            *)
(*    has_slots, slots]                                                    *)
(* where has_X says whether the key is present in the dict and isNone      *)
(* stands for the JSON value null (Python None).                           *)
(***************************************************************************)
EXTENDS Integers, Sequences, FiniteSets, TLC

VARIABLES
    now,            \* the wall clock's date, read by datetime.now()
    cache,          \* the file CACHE_FILE: [state, doc]
    pc,             \* per worker: position inside the running handler
    req,            \* per worker: the update being handled
    data,           \* per worker: local `data` of get_schedule_data
    reply,          \* what the handler run that ended last ended with
    lastLive,       \* history: document of the most recent fetch that returned Live
    schedule_data,  \* the document given to get_week_type or format_day_schedule
    wt,             \* the last application of get_week_type
    pj              \* the last application of format_day_schedule

vars == <<now, cache, pc, req, data, reply, lastLive, schedule_data, wt, pj>>

(***************************************************************************)
(* Bounds                                                                  *)
(***************************************************************************)
\* days before and after each modelled New Year that `now` ranges over
Window == 10
\* the target date lies at most this many days from `now`
MaxOffset == 15
\* longest timetable_tamplate_lines list
MaxLines == 2

\* New Years whose surroundings are modelled: ISO year 2026 has 53 weeks,
\* ISO year 2027 has 52, so both kinds of week-number wrap occur.
NewYears == {2027, 2028}

(***************************************************************************)
(* datetime: ordinals, isoweekday(), isocalendar()                         *)
(***************************************************************************)
days_before_year(y) ==
    (y - 1) * 365 + ((y - 1) \div 4) - ((y - 1) \div 100) + ((y - 1) \div 400)

\* ordinal of 1 January of year y
jan1(y) == days_before_year(y) + 1

Years == { y \in 2020..2035 : \E n \in NewYears : y \in (n - 2)..(n + 2) }

year_of(d) == CHOOSE y \in Years : jan1(y) <= d /\ d < jan1(y + 1)

\* date.isoweekday(): Monday = 1 .. Sunday = 7
isoweekday(d) == IF d % 7 = 0 THEN 7 ELSE d % 7

\* ordinal of the Monday of ISO week 1 of `year`
isoweek1monday(year) ==
    LET firstday == jan1(year)
        firstweekday == (firstday + 6) % 7
        week1monday == firstday - firstweekday
    IN  IF firstweekday > 3 THEN week1monday + 7 ELSE week1monday

\* date.isocalendar()[1]: the ISO week number of the date
isoweek(d) ==
    LET year == year_of(d)
        week == (d - isoweek1monday(year)) \div 7
    IN  IF d < isoweek1monday(year)
        THEN ((d - isoweek1monday(year - 1)) \div 7) + 1
        ELSE IF week >= 52 /\ d >= isoweek1monday(year + 1)
             THEN 1
             ELSE week + 1

\* date.isocalendar()[0]: the ISO week-numbering year of the date
isoyear(d) ==
    LET year == year_of(d)
        week == (d - isoweek1monday(year)) \div 7
    IN  IF d < isoweek1monday(year)
        THEN year - 1
        ELSE IF week >= 52 /\ d >= isoweek1monday(year + 1)
             THEN year + 1
             ELSE year

Dates == UNION { (jan1(y) - Window)..(jan1(y) + Window) : y \in NewYears }

(***************************************************************************)
(* Documents                                                               *)
(***************************************************************************)
NoneDoc ==
    [isNone |-> TRUE, has_current_week |-> FALSE, current_week |-> 0,
     has_lines |-> FALSE, lines |-> <<>>, has_slots |-> FALSE, slots |-> <<>>]

\* the JSON object {}
EmptyDict == [NoneDoc EXCEPT !.isNone = FALSE]

\* Python truthiness of a document: None and the empty dict are falsy
Truthy(doc) ==
    ~doc.isNone /\ (doc.has_current_week \/ doc.has_lines \/ doc.has_slots)

\* a document holding only the key current_week
WeekDoc(cw) == [EmptyDict EXCEPT !.has_current_week = TRUE, !.current_week = cw]

(***************************************************************************)
(* get_week_type                                                           *)
(***************************************************************************)
\* Python's %: the result has the sign of the divisor, so it is 0 or 1 here
PyMod2(n) == n % 2

\* C-style remainder (sign of the dividend)
TruncMod2(n) == IF n < 0 THEN 0 - ((0 - n) % 2) ELSE n % 2

\* get_week_type with the week difference corrected for the year wrap: the
\* number of weeks between the Mondays of the two ISO weeks
get_week_type_yearaware(doc, target_date) ==
    IF ~Truthy(doc) \/ ~doc.has_current_week
    THEN 1
    ELSE LET monday(d) == d - (isoweekday(d) - 1)
             week_diff == (monday(target_date) - monday(now)) \div 7
         IN  IF week_diff % 2 # 0
             THEN (IF doc.current_week = 1 THEN 2 ELSE 1)
             ELSE doc.current_week

\* get_week_type testing the remainder as C does (week_diff % 2 == 1)
get_week_type_truncmod(doc, target_date) ==
    IF ~Truthy(doc) \/ ~doc.has_current_week
    THEN 1
    ELSE LET week_diff == isoweek(target_date) - isoweek(now)
         IN  IF TruncMod2(week_diff) = 1
             THEN (IF doc.current_week = 1 THEN 2 ELSE 1)
             ELSE doc.current_week

get_week_type(doc, target_date) ==
    IF ~Truthy(doc) \/ ~doc.has_current_week
    THEN 1
    ELSE LET current_week_type == doc.current_week
             start_week_num == isoweek(now)
             target_week_num == isoweek(target_date)
             week_diff == target_week_num - start_week_num
         IN  IF PyMod2(week_diff) # 0
             THEN (IF current_week_type = 1 THEN 2 ELSE 1)
             ELSE current_week_type

(***************************************************************************)
(* format_day_schedule                                                     *)
(***************************************************************************)
\* lesson numbers that have a canonical display time
NEW_SCHEDULE_TIMES ==
    [n \in 1..6 |->
        CASE n = 1 -> "08:15-09:45"
          [] n = 2 -> "09:55-11:25"
          [] n = 3 -> "11:35-13:05"
          [] n = 4 -> "14:00-15:30"
          [] n = 5 -> "15:40-17:10"
          [] n = 6 -> "17:20-18:50"]

\* datetime.strptime(s, '%Y-%m-%dT%H:%M:%S.%fZ').strftime('%H:%M') on the
\* timestamp strings of the modelled documents; any other string does not
\* match the format and strptime raises ValueError.
StrptimeHM(s) ==
    CASE s = "2025-09-01T18:55:00.000Z" -> "18:55"
      [] s = "2025-09-01T20:25:00.000Z" -> "20:25"
      [] s = "2025-09-01T23:15:00.000Z" -> "23:15"
      [] s = "2025-09-02T00:45:00.000Z" -> "00:45"
      [] OTHER -> "ValueError"

\* doc.get('timetable_tamplate_lines', [])
template_lines(doc) == IF doc.has_lines THEN doc.lines ELSE <<>>

\* doc.get('schedule_lines', [])
schedule_lines(doc) == IF doc.has_slots THEN doc.slots ELSE <<>>

\* the selection without the test of the subject
lesson_selected_anysubject(lesson, day_of_week, week_type) ==
    /\ lesson.weekday = day_of_week
    /\ (lesson.parity = 0 \/ lesson.parity = week_type)

\* the condition of the list comprehension
lesson_selected(lesson, day_of_week, week_type) ==
    /\ lesson.weekday = day_of_week
    /\ (lesson.parity = 0 \/ lesson.parity = week_type)
    /\ lesson.discipline_str # ""

lessons_for_day(doc, day_of_week, week_type) ==
    LET Sel(lesson) == lesson_selected(lesson, day_of_week, week_type)
    IN  SelectSeq(template_lines(doc), Sel)

\* an ascending sort that puts an element before the equal ones already
\* sorted (not stable)
RECURSIVE sort_by_lesson_unstable(_)
sort_by_lesson_unstable(s) ==
    IF s = <<>> THEN <<>>
    ELSE LET x == s[Len(s)]
             front == sort_by_lesson_unstable(SubSeq(s, 1, Len(s) - 1))
             Before(y) == y.lesson < x.lesson
             NotBefore(y) == y.lesson >= x.lesson
         IN  SelectSeq(front, Before) \o <<x>> \o SelectSeq(front, NotBefore)

\* list.sort(key=lambda x: x['lesson']): stable, ascending.  Insertion of
\* the elements left to right, each after the elements not greater than it.
RECURSIVE sort_by_lesson(_)
sort_by_lesson(s) ==
    IF s = <<>> THEN <<>>
    ELSE LET x == s[Len(s)]
             front == sort_by_lesson(SubSeq(s, 1, Len(s) - 1))
             NotAfter(y) == y.lesson <= x.lesson
             After(y) == y.lesson > x.lesson
         IN  SelectSeq(front, NotAfter) \o <<x>> \o SelectSeq(front, After)

\* time_slots = {slot['lesson']: slot ...}: a later slot replaces an earlier
\* one with the same lesson number
has_slot(doc, n) == \E i \in 1..Len(schedule_lines(doc)) : schedule_lines(doc)[i].lesson = n

time_slot(doc, n) ==
    LET sl == schedule_lines(doc)
        last == CHOOSE i \in 1..Len(sl) :
                    sl[i].lesson = n /\ \A j \in (i + 1)..Len(sl) : sl[j].lesson # n
    IN  sl[last]

\* the time string of one listed lesson ("ValueError" when strptime raises)
time_string(doc, n) ==
    IF n \in DOMAIN NEW_SCHEDULE_TIMES
    THEN NEW_SCHEDULE_TIMES[n]
    ELSE LET slot == time_slot(doc, n)
             start_time == StrptimeHM(slot.begin_time)
             end_time == StrptimeHM(slot.end_time)
         IN  IF start_time = "ValueError" \/ end_time = "ValueError"
             THEN "ValueError"
             ELSE start_time \o "-" \o end_time

\* one element of schedule_parts
schedule_part(doc, lesson) ==
    [lesson |-> lesson.lesson, time |-> time_string(doc, lesson.lesson),
     discipline_str |-> lesson.discipline_str, person_str |-> lesson.person_str]

\* The value format_day_schedule returns: the "no lessons" text
\* (kind "empty_day"), or the header followed by schedule_parts
\* (kind "schedule"), or the exception that leaves it (kind "ValueError").
format_day_schedule(doc, day_of_week, week_type) ==
    LET selected == lessons_for_day(doc, day_of_week, week_type)
        sorted == sort_by_lesson(selected)
        Slotted(lesson) == has_slot(doc, lesson.lesson)
        kept == SelectSeq(sorted, Slotted)
        parts == [i \in 1..Len(kept) |-> schedule_part(doc, kept[i])]
    IN  IF selected = <<>>
        THEN [kind |-> "empty_day", week_type |-> week_type, parts |-> <<>>]
        ELSE IF \E i \in 1..Len(parts) : parts[i].time = "ValueError"
             THEN [kind |-> "ValueError", week_type |-> week_type, parts |-> <<>>]
             ELSE [kind |-> "schedule", week_type |-> week_type, parts |-> parts]

(***************************************************************************)
(* Inputs of the pure functions                                            *)
(***************************************************************************)
WeekDocs == {NoneDoc, EmptyDict} \cup { WeekDoc(cw) : cw \in 0..3 }

LessonShapes ==
    [weekday : {1, 2}, lesson : {1, 7}, parity : {0, 1, 2}, discipline_str : {"", "A"}]

\* a template: each line carries its own teacher, so that lines with equal
\* lesson numbers stay distinguishable in the output
Template(s) ==
    [i \in 1..Len(s) |->
        [weekday |-> s[i].weekday, lesson |-> s[i].lesson, parity |-> s[i].parity,
         discipline_str |-> s[i].discipline_str, person_str |-> i]]

Templates == UNION { { Template(s) : s \in [1..n -> LessonShapes] } : n \in 0..MaxLines }

Slot1 == [lesson |-> 1, begin_time |-> "2025-09-01T23:15:00.000Z",
          end_time |-> "2025-09-02T00:45:00.000Z"]
Slot7 == [lesson |-> 7, begin_time |-> "2025-09-01T18:55:00.000Z",
          end_time |-> "2025-09-01T20:25:00.000Z"]
Slot7Bad == [lesson |-> 7, begin_time |-> "2025-09-01T18:55:00Z",
             end_time |-> "2025-09-01T20:25:00Z"]

SlotTables ==
    {<<>>, <<Slot1>>, <<Slot7>>, <<Slot7Bad>>, <<Slot1, Slot7>>, <<Slot7Bad, Slot1>>,
     <<Slot7Bad, Slot7>>}

TimetableDoc(cw, lines, slots) ==
    [isNone |-> FALSE, has_current_week |-> TRUE, current_week |-> cw,
     has_lines |-> TRUE, lines |-> lines, has_slots |-> TRUE, slots |-> slots]

TimetableDocs == { TimetableDoc(1, l, s) : l \in Templates, s \in SlotTables }

(***************************************************************************)
(* State of the handlers (set up here, used by the fetch specifications)   *)
(***************************************************************************)
Procs == {1, 2}

NoFile == [state |-> "missing", doc |-> NoneDoc, len |-> 0]
NoDay == [kind |-> "none", week_type |-> 0, parts |-> <<>>]
NoRequest == [handler |-> "none", text |-> "none", day_index |-> 0]
NoReply == [kind |-> "none", path |-> "none", data |-> NoneDoc, from_cache |-> FALSE,
            net |-> "none", read |-> "none", during_write |-> FALSE,
            prior |-> [had |-> FALSE, doc |-> NoneDoc],
            warned |-> FALSE, week_type |-> 0, day |-> NoDay]
NoCall == [called |-> FALSE, target |-> 0, week_type |-> 0, week_later |-> 0]
NoProjection == [called |-> FALSE, day_of_week |-> 0, week_type |-> 0, out |-> NoDay]

InitHandlers ==
    /\ cache = NoFile
    /\ pc = [p \in Procs |-> "idle"]
    /\ req = [p \in Procs |-> NoRequest]
    /\ data = [p \in Procs |-> NoneDoc]
    /\ reply = NoReply
    /\ lastLive = [had |-> FALSE, doc |-> NoneDoc]

handlerVars == <<cache, pc, req, data, reply, lastLive>>

(***************************************************************************)
(* Specification of get_week_type applied to bounded inputs                *)
(***************************************************************************)
InitParity ==
    /\ now \in Dates
    /\ schedule_data \in WeekDocs
    /\ wt = NoCall
    /\ pj = NoProjection
    /\ InitHandlers

\* one application of get_week_type to a target date, and one to the date
\* seven days later, with the same clock and document
ResolveWeek(t) ==
    /\ wt' = [called |-> TRUE, target |-> t,
              week_type |-> get_week_type(schedule_data, t),
              week_later |-> get_week_type(schedule_data, t + 7)]
    /\ UNCHANGED <<now, schedule_data, pj, handlerVars>>

NextParity == \E t \in (now - MaxOffset)..(now + MaxOffset) : ResolveWeek(t)

SpecParity == InitParity /\ [][NextParity]_vars

(***************************************************************************)
(* Specification of format_day_schedule applied to bounded inputs          *)
(***************************************************************************)
InitProject ==
    /\ now \in {jan1(2027)}
    /\ schedule_data \in TimetableDocs
    /\ wt = NoCall
    /\ pj = NoProjection
    /\ InitHandlers

Project(day_of_week, week_type) ==
    /\ pj' = [called |-> TRUE, day_of_week |-> day_of_week, week_type |-> week_type,
              out |-> format_day_schedule(schedule_data, day_of_week, week_type)]
    /\ UNCHANGED <<now, schedule_data, wt, handlerVars>>

NextProject == \E d \in {1, 2}, w \in {1, 2} : Project(d, w)

SpecProject == InitProject /\ [][NextProject]_vars

(***************************************************************************)
(* get_schedule_data and the handlers                                      *)
(***************************************************************************)
\* Documents the API serves in the model: the JSON values null and {}, and
\* two timetables.
DocA ==
    TimetableDoc(1,
        Template(<<[weekday |-> 1, lesson |-> 2, parity |-> 1, discipline_str |-> "Algorithms"],
                   [weekday |-> 3, lesson |-> 3, parity |-> 0, discipline_str |-> "Physics"]>>),
        <<[lesson |-> 2, begin_time |-> "2025-09-01T00:55:00.000Z",
           end_time |-> "2025-09-01T02:25:00.000Z"],
          [lesson |-> 3, begin_time |-> "2025-09-01T02:35:00.000Z",
           end_time |-> "2025-09-01T04:05:00.000Z"]>>)

DocB ==
    TimetableDoc(2,
        Template(<<[weekday |-> 2, lesson |-> 1, parity |-> 2, discipline_str |-> "History"]>>),
        <<[lesson |-> 1, begin_time |-> "2025-09-01T23:15:00.000Z",
           end_time |-> "2025-09-02T00:45:00.000Z"]>>)

UpstreamDocs == {NoneDoc, EmptyDict, DocA, DocB}

\* Length of the text json.dump writes for a document, up to scale: "null",
\* "{}", and a text that grows with every key and list element.  Only the
\* order of two lengths is used.
text_len(doc) ==
    IF doc.isNone THEN 4
    ELSE 2 + (IF doc.has_current_week THEN 20 ELSE 0)
           + (IF doc.has_lines THEN 40 + 200 * Len(doc.lines) ELSE 0)
           + (IF doc.has_slots THEN 30 + 100 * Len(doc.slots) ELSE 0)

\* the updates of the model: /start, three message texts, two buttons
Requests ==
    {[handler |-> "start", text |-> "none", day_index |-> 0]}
    \cup { [handler |-> "message", text |-> t, day_index |-> 0] :
             t \in {"tomorrow", "this_week", "other"} }
    \cup {[handler |-> "button", text |-> "this_week", day_index |-> 1],
          [handler |-> "button", text |-> "next_week", day_index |-> 2]}

\* the function's first lines guard against a missing document
get_schedule_for_date(target_date, doc) ==
    IF ~Truthy(doc)
    THEN [kind |-> "no_data", week_type |-> 0, parts |-> <<>>]
    ELSE format_day_schedule(doc, isoweekday(target_date), get_week_type(doc, target_date))

\* target_date of button_callback
button_target(r) ==
    IF r.text = "this_week"
    THEN now - (isoweekday(now) - r.day_index)
    ELSE LET days_left_in_week == 7 - isoweekday(now)
             next_monday == now + (days_left_in_week + 1)
         IN  next_monday + (r.day_index - 1)

\* What a handler does with the pair (d, from_cache) that get_schedule_data
\* returned on `path`: the reply it sends.
handler_reply(r, path, d, from_cache) ==
    LET base == [NoReply EXCEPT !.path = path, !.data = d, !.from_cache = from_cache]
        Day(target) ==
            LET day == get_schedule_for_date(target, d)
            IN  IF day.kind = "ValueError"
                THEN [base EXCEPT !.kind = "exception", !.day = day]
                ELSE [base EXCEPT !.kind = "day", !.day = day, !.warned = from_cache]
    IN  IF ~Truthy(d)
        THEN [base EXCEPT !.kind = "no_data"]
        ELSE CASE r.handler = "start" ->
                    [base EXCEPT !.kind = "welcome", !.warned = from_cache,
                                 !.week_type = get_week_type(d, now)]
               [] r.handler = "message" /\ r.text = "today" -> Day(now)
               [] r.handler = "message" /\ r.text = "tomorrow" -> Day(now + 1)
               [] r.handler = "message" /\ r.text \in {"this_week", "next_week"} ->
                    [base EXCEPT !.kind = "menu"]
               [] r.handler = "message" /\ r.text = "other" ->
                    [base EXCEPT !.kind = "blank", !.warned = from_cache]
               [] OTHER -> Day(button_target(r))

\* the reply slot of a handler run that an exception left
raised_reply == [NoReply EXCEPT !.kind = "exception", !.path = "raised"]

\* a handler starts on an update
Begin(p, r) ==
    /\ pc[p] = "idle"
    /\ pc' = [pc EXCEPT ![p] = "fetching"]
    /\ req' = [req EXCEPT ![p] = r]
    /\ UNCHANGED <<now, cache, data, reply, lastLive, schedule_data, wt, pj>>

\* the handlers of one Application run one after the other, each to its end
BeginAlone(p, r) ==
    /\ \A q \in Procs : pc[q] = "idle"
    /\ Begin(p, r)

\* requests.get, raise_for_status and response.json() succeed
NetOk(p, doc) ==
    /\ pc[p] = "fetching"
    /\ pc' = [pc EXCEPT ![p] = "got_data"]
    /\ data' = [data EXCEPT ![p] = doc]
    /\ UNCHANGED <<now, cache, req, reply, lastLive, schedule_data, wt, pj>>

\* one of them raises requests.RequestException (connection error, timeout,
\* HTTP error status, body that is not JSON)
NetFail(p) ==
    /\ pc[p] = "fetching"
    /\ pc' = [pc EXCEPT ![p] = "net_failed"]
    /\ UNCHANGED <<now, cache, req, data, reply, lastLive, schedule_data, wt, pj>>

\* open(CACHE_FILE, 'w') succeeds: the file exists and is empty from here on
OpenWriteOk(p) ==
    /\ pc[p] = "got_data"
    /\ pc' = [pc EXCEPT ![p] = "writing"]
    /\ cache' = [state |-> "corrupt", doc |-> NoneDoc, len |-> 0]
    /\ UNCHANGED <<now, req, data, reply, lastLive, schedule_data, wt, pj>>

\* the handler run ends with the exception e
Raise(p) ==
    /\ pc' = [pc EXCEPT ![p] = "idle"]
    /\ req' = [req EXCEPT ![p] = NoRequest]
    /\ data' = [data EXCEPT ![p] = NoneDoc]
    /\ reply' = [raised_reply EXCEPT !.net = "ok"]

\* open(CACHE_FILE, 'w') raises OSError (no permission, read-only directory):
\* not a RequestException, so it leaves get_schedule_data and the handler
OpenWriteFail(p) ==
    /\ pc[p] = "got_data"
    /\ Raise(p)
    /\ UNCHANGED <<now, cache, lastLive, schedule_data, wt, pj>>

\* json.dump and the close of the with block succeed: the text is written
\* from offset 0 of a file this worker truncated at open; what another
\* worker wrote since then beyond the new text's end stays.
\* get_schedule_data returns (data, False) and the handler replies.
DumpOk(p) ==
    /\ pc[p] = "writing"
    /\ cache' = IF text_len(data[p]) >= cache.len
                THEN [state |-> "complete", doc |-> data[p], len |-> text_len(data[p])]
                ELSE [state |-> "corrupt", doc |-> NoneDoc, len |-> cache.len]
    /\ lastLive' = [had |-> TRUE, doc |-> data[p]]
    /\ reply' = [handler_reply(req[p], "Live", data[p], FALSE) EXCEPT !.net = "ok"]
    /\ pc' = [pc EXCEPT ![p] = "idle"]
    /\ req' = [req EXCEPT ![p] = NoRequest]
    /\ data' = [data EXCEPT ![p] = NoneDoc]
    /\ UNCHANGED <<now, schedule_data, wt, pj>>

\* json.dump or the close raises OSError (disk full): the file keeps what
\* it held, no complete text of this worker's
DumpFail(p) ==
    /\ pc[p] = "writing"
    /\ cache' = [state |-> "corrupt", doc |-> NoneDoc, len |-> cache.len]
    /\ Raise(p)
    /\ UNCHANGED <<now, lastLive, schedule_data, wt, pj>>

\* the except branch: open(CACHE_FILE, 'r') and json.load.  A missing file
\* (FileNotFoundError) and a text that is not JSON (JSONDecodeError) give
\* (None, False); a complete text gives (cached_data, True).
ReadCache(p) ==
    /\ pc[p] = "net_failed"
    /\ LET ok == cache.state = "complete"
           r == IF ok
                THEN handler_reply(req[p], "Cached", cache.doc, TRUE)
                ELSE handler_reply(req[p], "Unavailable", NoneDoc, FALSE)
       IN  reply' = [r EXCEPT !.net = "fail", !.read = cache.state,
                                 !.during_write = \E q \in Procs \ {p} : pc[q] = "writing",
                                 !.prior = lastLive]
    /\ pc' = [pc EXCEPT ![p] = "idle"]
    /\ req' = [req EXCEPT ![p] = NoRequest]
    /\ UNCHANGED <<now, cache, data, lastLive, schedule_data, wt, pj>>

\* open(CACHE_FILE, 'r') or the read raises another OSError (the file exists
\* but may not be read): not caught by the inner except
ReadCacheFail(p) ==
    /\ pc[p] = "net_failed"
    /\ cache.state # "missing"
    /\ reply' = [raised_reply EXCEPT !.net = "fail", !.read = "oserror",
                                      !.prior = lastLive]
    /\ pc' = [pc EXCEPT ![p] = "idle"]
    /\ req' = [req EXCEPT ![p] = NoRequest]
    /\ UNCHANGED <<now, cache, data, lastLive, schedule_data, wt, pj>>

\* the clock of the fetch specifications: Sunday 3 January 2027
FetchDates == {jan1(2027) + 2}

Init ==
    /\ now \in FetchDates
    /\ schedule_data = NoneDoc
    /\ wt = NoCall
    /\ pj = NoProjection
    /\ InitHandlers

Step(p) ==
    \/ \E doc \in UpstreamDocs : NetOk(p, doc)
    \/ NetFail(p)
    \/ OpenWriteOk(p)
    \/ OpenWriteFail(p)
    \/ DumpOk(p)
    \/ DumpFail(p)
    \/ ReadCache(p)
    \/ ReadCacheFail(p)

\* one handler at a time: Application processes updates sequentially and
\* get_schedule_data blocks the event loop until it returns
Next == \E p \in Procs : (\E r \in Requests : BeginAlone(p, r)) \/ Step(p)

Spec == Init /\ [][Next]_vars

\* a host that serves queries concurrently over the same CACHE_FILE
NextConcurrent == \E p \in Procs : (\E r \in Requests : Begin(p, r)) \/ Step(p)

SpecConcurrent == Init /\ [][NextConcurrent]_vars

(***************************************************************************)
(* Properties                                                              *)
(***************************************************************************)
Odd(n) == \E k \in -40..40 : n = 2 * k + 1

\* the application of get_week_type had a document with current_week 1 or 2
ParityGiven ==
    /\ wt.called
    /\ Truthy(schedule_data)
    /\ schedule_data.has_current_week
    /\ schedule_data.current_week \in {1, 2}

\* C1: whatever fails during get_schedule_data, no exception reaches the
\* caller: the handler run ends with one of the outcomes Live, Cached,
\* Unavailable, and when the network call failed and no cache file exists
\* the reply is "no data".
C1_NoExceptionReachesCaller ==
    reply.kind # "none" =>
        /\ reply.path \in {"Live", "Cached", "Unavailable"}
        /\ reply.kind # "exception"
        /\ (reply.net = "fail" /\ reply.read = "missing" => reply.kind = "no_data")

\* C2: once some fetch has returned Live, a fetch whose network call fails
\* returns, marked as from the cache, exactly the document of the most
\* recent fetch that returned Live.
C2_FailedFetchReturnsLastLive ==
    reply.net = "fail" /\ reply.prior.had =>
        /\ reply.path = "Cached"
        /\ reply.from_cache
        /\ reply.data = reply.prior.doc

\* the origin a caller can read off the pair get_schedule_data returned
origin_read_off(d, from_cache) ==
    IF from_cache THEN "Cached" ELSE IF d.isNone THEN "Unavailable" ELSE "Live"

\* C3: a document that was fetched or read from the cache, empty or not, is
\* never answered with "no data", and the pair get_schedule_data returns
\* tells the three origins apart.
C3_EmptyIsNotNoData ==
    reply.path \in {"Live", "Cached", "Unavailable"} =>
        /\ (reply.path \in {"Live", "Cached"} => reply.kind # "no_data")
        /\ origin_read_off(reply.data, reply.from_cache) = reply.path

\* C4 as stated: two target dates seven days apart in the same year (the
\* same calendar year and the same ISO year) get the same week type.
C4_SameParityWeekApart ==
    ParityGiven /\ year_of(wt.target) = year_of(wt.target + 7)
                /\ isoyear(wt.target) = isoyear(wt.target + 7)
        => wt.week_type = wt.week_later

\* C4 amended: two target dates seven days apart in the same ISO year get
\* opposite week types, each 1 or 2.
C4_OppositeParityWeekApart ==
    ParityGiven /\ isoyear(wt.target) = isoyear(wt.target + 7)
        => /\ wt.week_type \in {1, 2}
           /\ wt.week_later = 3 - wt.week_type

\* the target lies in the week before today's, today's week type is 2
C4_Witness ==
    /\ ParityGiven
    /\ schedule_data.current_week = 2
    /\ isoyear(wt.target) = isoyear(wt.target + 7)
    /\ isoweek(wt.target) = isoweek(now) - 1
    /\ wt.week_type = 1
    /\ wt.week_later = 2

\* C5: get_week_type returns 1 or 2 for every date and every document, and
\* 1 when the document or its current_week is missing.
C5_WeekTypeIsOneOrTwo ==
    wt.called =>
        /\ wt.week_type \in {1, 2}
        /\ (~Truthy(schedule_data) \/ ~schedule_data.has_current_week => wt.week_type = 1)

\* C9: with current_week 1 or 2, get_week_type returns the other week type
\* when the raw ISO week numbers of the target and of today differ by an odd
\* number (negative or positive, no correction at the year wrap) and
\* current_week when the difference is even; for the target today it
\* returns current_week.
C9_FlipsOnOddRawDifference ==
    ParityGiven =>
        LET diff == isoweek(wt.target) - isoweek(now)
        IN  /\ (Odd(diff) => wt.week_type = 3 - schedule_data.current_week)
            /\ (~Odd(diff) => wt.week_type = schedule_data.current_week)
            /\ (wt.target = now => wt.week_type = schedule_data.current_week)

\* today is in week 52, the target in week 1 of the next ISO year: the
\* difference is -51 and the week type flips
C9_Witness ==
    /\ ParityGiven
    /\ schedule_data.current_week = 1
    /\ isoweek(now) = 52
    /\ isoweek(wt.target) = 1
    /\ wt.week_type = 2

\* the template lines of the document projected, and the indices of those
\* that match the weekday and week type asked for and have a subject
Lines == template_lines(schedule_data)

Matching ==
    { i \in 1..Len(Lines) :
        /\ Lines[i].weekday = pj.day_of_week
        /\ Lines[i].parity \in {0, pj.week_type}
        /\ Lines[i].discipline_str # "" }

WithSlot ==
    { i \in Matching :
        \E k \in 1..Len(schedule_lines(schedule_data)) :
            schedule_lines(schedule_data)[k].lesson = Lines[i].lesson }

\* the template lines listed in the result (each line has its own teacher)
Listed == { pj.out.parts[k].person_str : k \in 1..Len(pj.out.parts) }

Returned == pj.called /\ pj.out.kind # "ValueError"

C7_StrictlyAscending ==
    pj.called =>
        \A k \in 1..(Len(pj.out.parts) - 1) :
            pj.out.parts[k].lesson < pj.out.parts[k + 1].lesson

\* C7 amended: the lesson numbers listed never decrease, and lessons with
\* the same number are listed in the order of the template.
C7_AscendingStable ==
    pj.called =>
        \A k \in 1..(Len(pj.out.parts) - 1) :
            \/ pj.out.parts[k].lesson < pj.out.parts[k + 1].lesson
            \/ /\ pj.out.parts[k].lesson = pj.out.parts[k + 1].lesson
               /\ pj.out.parts[k].person_str < pj.out.parts[k + 1].person_str

\* an every-week lesson and a week-type lesson with the same number on the
\* same weekday are both listed
C7_Witness ==
    /\ pj.called
    /\ Len(pj.out.parts) = 2
    /\ pj.out.parts[1].lesson = pj.out.parts[2].lesson
    /\ Lines[1].parity # Lines[2].parity

\* C8: when no lesson is listed the result is the "no lessons" text: a
\* header followed by no lesson is never returned.
C8_NoLessonMeansEmptyDay ==
    Returned /\ pj.out.parts = <<>> => pj.out.kind = "empty_day"

\* C10: a fetch whose network call failed, and that reads the cache of an
\* earlier Live fetch while another worker is between opening and closing
\* the file for writing, reads a complete record.
C10_ReaderSeesCompleteRecord ==
    reply.net = "fail" /\ reply.during_write /\ reply.prior.had =>
        reply.read = "complete"

====
